---- MODULE Spec2Model ----
(***************************************************************************)
(* AST2400 SoC bring-up (hw/arm/ast2400.c): ast2400_realize as a sequence  *)
(* of collaborator calls, and the catch-all IO handlers ast2400_io_read /  *)
(* ast2400_io_write.  One action per collaborator call of the function;    *)
(* an `if (err) { error_propagate(errp, err); return; }` that follows a    *)
(* call is part of that call's action.                                     *)
(***************************************************************************)
EXTENDS Integers, Sequences, FiniteSets, TLC

(* ---- fixed numbers of the source ------------------------------------- *)
\* mutation: UART5 placed by its absolute address instead of its offset
AST2400_UART_5_BASE_absolute == 509607936 + 1589248
AST2400_UART_5_BASE == 1589248      \* 0x00184000
AST2400_IOMEM_SIZE == 2097152       \* 0x00200000
AST2400_IOMEM_BASE == 509607936     \* 0x1E600000
CDNS_GEM_ADDR == 510132224          \* 0x1E680000
AST2400_VIC_BASE == 510394368       \* 0x1E6C0000
AST2400_SCU_BASE == 510533632       \* 0x1E6E2000
AST2400_TIMER_BASE == 511188992     \* 0x1E782000
AST2400_I2C_BASE == 511221760       \* 0x1E78A000

\* mutation: UART5 given the interrupt input of the I2C controller
uart_irqs_clash == <<9, 32, 33, 34, 12>>
uart_irqs == <<9, 32, 33, 34, 10>>
\* mutation: the timers given a contiguous range of inputs
timer_irqs_contiguous == <<16, 17, 18, 19, 20, 21, 22, 23>>
timer_irqs == <<16, 17, 18, 35, 36, 37, 38, 39>>
CDNS_GEM_IRQ == 3
I2C_IRQ == 12
ARM_CPU_IRQ == 0
ARM_CPU_FIQ == 1
\* memory_region_add_subregion (used by sysbus_mmio_map) inserts at priority 0
DevicePriority == 0
\* mutation: the IO window layered above the devices
IomemPriorityAbove == DevicePriority + 1
\* priority given to memory_region_add_subregion_overlap for the IO window
IomemPriority == -1
TMP423_BUS == 2
TMP423_ADDR == 76                   \* 0x4c
DS1338_BUS == 0
DS1338_ADDR == 104                  \* 0x68

(* ---- bounds of the model ---------------------------------------------- *)
\* number of guest accesses followed after composition
MaxAccess == 2
\* sizes a device's MMIO region may have (set by the device, not by this file)
DevSizes == {4, 4096}
\* access sizes and written values tried against the IO window
AccessSizes == {1, 4}
WriteValues == {0, 255}

VARIABLES
    pc,          \* position in ast2400_realize
    i,           \* the loop variable `i`
    err,         \* the local `Error *err`
    errp,        \* the caller's `Error **errp`
    serial_hd,   \* serial_hds[0] is non-NULL
    nd_used,     \* nd_table[0] describes a configured NIC
    devsize,     \* size of each device's MMIO region
    sram_mapped, \* s->sram is a subregion of system memory
    sysmem,      \* subregions of get_system_memory() in the IO window
    iosub,       \* subregions of s->iomem
    wires,       \* interrupt wires [src, out, dst, in]
    realized,    \* devices whose "realized" is true
    props,       \* properties applied, per device
    slaves,      \* devices attached to the I2C sub-buses
    calls,       \* collaborator calls made so far, in order
    lastop,      \* kind of the last guest access
    rdata,       \* value produced by the last guest read
    iolog,       \* the latest diagnostic emitted by the catch-all handlers
    naccess      \* number of guest accesses so far

vars == <<pc, i, err, errp, serial_hd, nd_used, devsize, sram_mapped, sysmem,
          iosub, wires, realized, props, slaves, calls, lastop, rdata, iolog,
          naccess>>

soc == <<sram_mapped, sysmem, iosub, wires, realized, props, slaves>>
io == <<lastop, rdata, iolog, naccess>>
env == <<serial_hd, nd_used, devsize>>

Devices == {"vic", "timerctrl", "gem", "scu", "i2c", "uart", "tmp423", "ds1338"}

\* no diagnostic emitted yet
NoLog == [op |-> "none", offset |-> 0, value |-> 0, size |-> 0]

(* ---- the error channel ------------------------------------------------ *)
NoErr == [dev |-> "none", op |-> "none", name |-> "none"]
Error(dev, op, name) == [dev |-> dev, op |-> op, name |-> name]

\* What `&err` may hold after a callee reports e into it.  An empty channel
\* takes e.  The callee's treatment of an occupied channel is not fixed by
\* this file: the earlier error may stay or e may replace it.
Report(cur, e) == IF cur = NoErr THEN {e} ELSE {cur, e}

Call(op, dev, name, n, ok) ==
    [op |-> op, dev |-> dev, name |-> name, n |-> n, ok |-> ok]

(* ---- building blocks: one collaborator call each ----------------------- *)
\* object_property_set_int(OBJECT(dev), value, name, &err)
object_property_set_int(dev, name, fails) ==
    /\ calls' = Append(calls, Call("set", dev, name, 0, ~fails))
    /\ IF fails
          THEN /\ err' \in Report(err, Error(dev, "configure", name))
               /\ props' = props
          ELSE /\ err' = err
               /\ props' = [props EXCEPT ![dev] = @ \cup {name}]

\* object_property_set_bool(OBJECT(dev), true, "realized", &err)
object_property_set_bool(dev, fails) ==
    /\ calls' = Append(calls, Call("realize", dev, "realized", 0, ~fails))
    /\ IF fails
          THEN /\ err' \in Report(err, Error(dev, "activate", "realized"))
               /\ realized' = realized
          ELSE /\ err' = err
               /\ realized' = realized \cup {dev}

\* if (err) { error_propagate(errp, err); return; }  else fall through to next
CheckErr(next) ==
    IF err' # NoErr
       THEN /\ errp' = err'
            /\ pc' = "done"
       ELSE /\ errp' = errp
            /\ pc' = next

\* sysbus_mmio_map(SYS_BUS_DEVICE(dev), 0, base)
sysbus_mmio_map(dev, base) ==
    /\ calls' = Append(calls, Call("map", dev, "mmio", 0, TRUE))
    /\ sysmem' = sysmem \cup {[name |-> dev, base |-> base, size |-> devsize,
                               prio |-> DevicePriority]}

\* sysbus_connect_irq(SYS_BUS_DEVICE(src), n, qdev_get_gpio_in(DEVICE(dst), in))
sysbus_connect_irq(src, n, dst, in) ==
    /\ calls' = Append(calls, Call("irq", src, dst, n, TRUE))
    /\ wires' = wires \cup {[src |-> src, out |-> n, dst |-> dst, in |-> in]}

\* i2c_create_slave(aspeed_i2c_get_bus(DEVICE(&s->i2c), bus), type, addr):
\* the slave is created, put on the sub-bus and brought up before the call
\* returns (the caller does nothing more with the ds1338 it creates).
i2c_create_slave(bus, type, addr) ==
    /\ calls' = Append(calls, Call("slave", type, "i2c", bus, TRUE))
    /\ slaves' = slaves \cup {[type |-> type, bus |-> bus, addr |-> addr]}
    /\ realized' = realized \cup {type}

(* ---- initial state: after ast2400_init, before ast2400_realize -------- *)
Init ==
    /\ pc = "sram"
    /\ i = 0
    /\ err = NoErr
    /\ errp = NoErr
    /\ serial_hd \in BOOLEAN
    /\ nd_used \in BOOLEAN
    /\ devsize \in DevSizes
    /\ sram_mapped = FALSE
    /\ sysmem = {}
    /\ iosub = {}
    /\ wires = {}
    /\ realized = {}
    /\ props = [d \in Devices |-> {}]
    /\ slaves = {}
    /\ calls = <<>>
    /\ lastop = "none"
    /\ rdata = 0
    /\ iolog = NoLog
    /\ naccess = 0

(* ---- ast2400_realize --------------------------------------------------- *)
\* SRAM: memory_region_allocate_system_memory + memory_region_add_subregion
MapSram ==
    /\ pc = "sram"
    /\ sram_mapped' = TRUE
    /\ calls' = Append(calls, Call("insert", "sram", "system_memory", 0, TRUE))
    /\ pc' = "iomem"
    /\ UNCHANGED <<i, err, errp, env, sysmem, iosub, wires, realized, props,
                   slaves, io>>

\* IO space: memory_region_init_io + memory_region_add_subregion_overlap(-1)
MapIomem ==
    /\ pc = "iomem"
    /\ sysmem' = sysmem \cup {[name |-> "iomem", base |-> AST2400_IOMEM_BASE,
                               size |-> AST2400_IOMEM_SIZE,
                               prio |-> IomemPriority]}
    /\ calls' = Append(calls, Call("insert", "iomem", "system_memory", 0, TRUE))
    /\ pc' = "vic_sense"
    /\ UNCHANGED <<i, err, errp, env, sram_mapped, iosub, wires, realized,
                   props, slaves, io>>

\* VIC: "sense"
VicSetSense ==
    /\ pc = "vic_sense"
    /\ \E fails \in BOOLEAN : object_property_set_int("vic", "sense", fails)
    /\ pc' = "vic_dual_edge"
    /\ UNCHANGED <<i, errp, env, sram_mapped, sysmem, iosub, wires, realized,
                   slaves, io>>

\* VIC: "dual_edge"
VicSetDualEdge ==
    /\ pc = "vic_dual_edge"
    /\ \E fails \in BOOLEAN : object_property_set_int("vic", "dual_edge", fails)
    /\ pc' = "vic_event"
    /\ UNCHANGED <<i, errp, env, sram_mapped, sysmem, iosub, wires, realized,
                   slaves, io>>

\* VIC: "event", then the first check of err
VicSetEvent ==
    /\ pc = "vic_event"
    /\ \E fails \in BOOLEAN : object_property_set_int("vic", "event", fails)
    /\ CheckErr("vic_realize")
    /\ UNCHANGED <<i, env, sram_mapped, sysmem, iosub, wires, realized,
                   slaves, io>>

\* mutation: the VIC's realize without the check that follows it
VicRealizeUnchecked ==
    /\ pc = "vic_realize"
    /\ \E fails \in BOOLEAN : object_property_set_bool("vic", fails)
    /\ pc' = "vic_map"
    /\ UNCHANGED <<i, errp, env, sram_mapped, sysmem, iosub, wires, props,
                   slaves, io>>

\* VIC: realize, check
VicRealize ==
    /\ pc = "vic_realize"
    /\ \E fails \in BOOLEAN : object_property_set_bool("vic", fails)
    /\ CheckErr("vic_map")
    /\ UNCHANGED <<i, env, sram_mapped, sysmem, iosub, wires, props, slaves,
                   io>>

\* VIC: map
VicMap ==
    /\ pc = "vic_map"
    /\ sysbus_mmio_map("vic", AST2400_VIC_BASE)
    /\ pc' = "vic_irq"
    /\ UNCHANGED <<i, err, errp, env, sram_mapped, iosub, wires, realized,
                   props, slaves, io>>

\* VIC: output 0 -> CPU IRQ
VicConnectIrq ==
    /\ pc = "vic_irq"
    /\ sysbus_connect_irq("vic", 0, "cpu", ARM_CPU_IRQ)
    /\ pc' = "vic_fiq"
    /\ UNCHANGED <<i, err, errp, env, sram_mapped, sysmem, iosub, realized,
                   props, slaves, io>>

\* mutation: the VIC's second output wired to the CPU's IRQ input
VicConnectFiqSwapped ==
    /\ pc = "vic_fiq"
    /\ sysbus_connect_irq("vic", 1, "cpu", ARM_CPU_IRQ)
    /\ pc' = "timer_realize"
    /\ UNCHANGED <<i, err, errp, env, sram_mapped, sysmem, iosub, realized,
                   props, slaves, io>>

\* VIC: output 1 -> CPU FIQ
VicConnectFiq ==
    /\ pc = "vic_fiq"
    /\ sysbus_connect_irq("vic", 1, "cpu", ARM_CPU_FIQ)
    /\ pc' = "timer_realize"
    /\ UNCHANGED <<i, err, errp, env, sram_mapped, sysmem, iosub, realized,
                   props, slaves, io>>

\* mutation: the timer's realize without the check that follows it
TimerRealizeUnchecked ==
    /\ pc = "timer_realize"
    /\ \E fails \in BOOLEAN : object_property_set_bool("timerctrl", fails)
    /\ pc' = "timer_map"
    /\ UNCHANGED <<i, errp, env, sram_mapped, sysmem, iosub, wires, props,
                   slaves, io>>

\* Timer: realize, check
TimerRealize ==
    /\ pc = "timer_realize"
    /\ \E fails \in BOOLEAN : object_property_set_bool("timerctrl", fails)
    /\ CheckErr("timer_map")
    /\ UNCHANGED <<i, env, sram_mapped, sysmem, iosub, wires, props, slaves,
                   io>>

\* Timer: map; `i = 0` of the for loop
TimerMap ==
    /\ pc = "timer_map"
    /\ sysbus_mmio_map("timerctrl", AST2400_TIMER_BASE)
    /\ i' = 0
    /\ pc' = "timer_irq"
    /\ UNCHANGED <<err, errp, env, sram_mapped, iosub, wires, realized, props,
                   slaves, io>>

\* Timer: one iteration of for (i = 0; i < ARRAY_SIZE(timer_irqs); i++)
TimerConnectIrq ==
    /\ pc = "timer_irq"
    /\ i < Len(timer_irqs)
    /\ sysbus_connect_irq("timerctrl", i, "vic", timer_irqs[i + 1])
    /\ i' = i + 1
    /\ pc' = IF i + 1 < Len(timer_irqs) THEN "timer_irq" ELSE "gem_bind"
    /\ UNCHANGED <<err, errp, env, sram_mapped, sysmem, iosub, realized, props,
                   slaves, io>>

\* GEM: qemu_check_nic_model + qdev_set_nic_properties on nd_table[0]
GemSetNic ==
    /\ pc = "gem_bind"
    /\ calls' = Append(calls, Call("set", "gem", "nd_table[0]", 0, TRUE))
    /\ props' = [props EXCEPT !["gem"] = @ \cup {"nd_table[0]"}]
    /\ pc' = "gem_realize"
    /\ UNCHANGED <<i, err, errp, env, sram_mapped, sysmem, iosub, wires,
                   realized, slaves, io>>

\* Whether the GEM's realize may report a failure.  The MAC model is not part
\* of this file; by the specification's section 8 an absent network backend
\* makes the MAC's activation fail, and with a backend it may still fail.
GemRealizeOutcomes == IF nd_used THEN BOOLEAN ELSE {TRUE}

\* mutation: the GEM's realize without the check that follows it
GemRealizeUnchecked ==
    /\ pc = "gem_realize"
    /\ \E fails \in GemRealizeOutcomes : object_property_set_bool("gem", fails)
    /\ pc' = "gem_map"
    /\ UNCHANGED <<i, errp, env, sram_mapped, sysmem, iosub, wires, props,
                   slaves, io>>

\* GEM: realize, check
GemRealize ==
    /\ pc = "gem_realize"
    /\ \E fails \in GemRealizeOutcomes : object_property_set_bool("gem", fails)
    /\ CheckErr("gem_map")
    /\ UNCHANGED <<i, env, sram_mapped, sysmem, iosub, wires, props, slaves,
                   io>>

\* GEM: map
GemMap ==
    /\ pc = "gem_map"
    /\ sysbus_mmio_map("gem", CDNS_GEM_ADDR)
    /\ pc' = "gem_irq"
    /\ UNCHANGED <<i, err, errp, env, sram_mapped, iosub, wires, realized,
                   props, slaves, io>>

\* GEM: output 0 -> VIC input CDNS_GEM_IRQ
GemConnectIrq ==
    /\ pc = "gem_irq"
    /\ sysbus_connect_irq("gem", 0, "vic", CDNS_GEM_IRQ)
    /\ pc' = "scu_0c"
    /\ UNCHANGED <<i, err, errp, env, sram_mapped, sysmem, iosub, realized,
                   props, slaves, io>>

\* SCU: "scu0c"
ScuSet0c ==
    /\ pc = "scu_0c"
    /\ \E fails \in BOOLEAN : object_property_set_int("scu", "scu0c", fails)
    /\ pc' = "scu_88"
    /\ UNCHANGED <<i, errp, env, sram_mapped, sysmem, iosub, wires, realized,
                   slaves, io>>

\* SCU: "scu88"
ScuSet88 ==
    /\ pc = "scu_88"
    /\ \E fails \in BOOLEAN : object_property_set_int("scu", "scu88", fails)
    /\ pc' = "scu_8c"
    /\ UNCHANGED <<i, errp, env, sram_mapped, sysmem, iosub, wires, realized,
                   slaves, io>>

\* SCU: "scu8c"
ScuSet8c ==
    /\ pc = "scu_8c"
    /\ \E fails \in BOOLEAN : object_property_set_int("scu", "scu8c", fails)
    /\ pc' = "scu_9c"
    /\ UNCHANGED <<i, errp, env, sram_mapped, sysmem, iosub, wires, realized,
                   slaves, io>>

\* mutation: the SCU realized before its last preset is applied
ScuSet9cAfterRealize ==
    /\ pc = "scu_9c"
    /\ calls' = calls \o <<Call("realize", "scu", "realized", 0, TRUE),
                           Call("set", "scu", "scu9c", 0, TRUE)>>
    /\ realized' = realized \cup {"scu"}
    /\ props' = [props EXCEPT !["scu"] = @ \cup {"scu9c"}]
    /\ pc' = "scu_map"
    /\ UNCHANGED <<i, err, errp, env, sram_mapped, sysmem, iosub, wires,
                   slaves, io>>

\* SCU: "scu9c"
ScuSet9c ==
    /\ pc = "scu_9c"
    /\ \E fails \in BOOLEAN : object_property_set_int("scu", "scu9c", fails)
    /\ pc' = "scu_realize"
    /\ UNCHANGED <<i, errp, env, sram_mapped, sysmem, iosub, wires, realized,
                   slaves, io>>

\* SCU: realize, then the only check of err in the SCU block
ScuRealize ==
    /\ pc = "scu_realize"
    /\ \E fails \in BOOLEAN : object_property_set_bool("scu", fails)
    /\ CheckErr("scu_map")
    /\ UNCHANGED <<i, env, sram_mapped, sysmem, iosub, wires, props, slaves,
                   io>>

\* mutation: the UART block left out after the SCU
ScuMapSkipUart ==
    /\ pc = "scu_map"
    /\ sysbus_mmio_map("scu", AST2400_SCU_BASE)
    /\ pc' = "i2c_realize"
    /\ UNCHANGED <<i, err, errp, env, sram_mapped, iosub, wires, realized,
                   props, slaves, io>>

\* SCU: map
ScuMap ==
    /\ pc = "scu_map"
    /\ sysbus_mmio_map("scu", AST2400_SCU_BASE)
    /\ pc' = "uart"
    /\ UNCHANGED <<i, err, errp, env, sram_mapped, iosub, wires, realized,
                   props, slaves, io>>

\* mutation: without a serial backend the function never gets past the UART
UartInitBlocks ==
    /\ pc = "uart"
    /\ serial_hd
    /\ iosub' = iosub \cup {[name |-> "uart", offset |-> AST2400_UART_5_BASE,
                             size |-> devsize]}
    /\ wires' = wires \cup {[src |-> "uart", out |-> 0, dst |-> "vic",
                             in |-> uart_irqs[5]]}
    /\ realized' = realized \cup {"uart"}
    /\ calls' = Append(calls, Call("serial_mm_init", "uart", "iomem", 0, TRUE))
    /\ pc' = "i2c_realize"
    /\ UNCHANGED <<i, err, errp, env, sram_mapped, sysmem, props, slaves, io>>

\* mutation: a missing serial backend treated as an error
UartInitRequired ==
    /\ pc = "uart"
    /\ IF serial_hd
          THEN /\ iosub' = iosub \cup {[name |-> "uart",
                                        offset |-> AST2400_UART_5_BASE,
                                        size |-> devsize]}
               /\ wires' = wires \cup {[src |-> "uart", out |-> 0,
                                        dst |-> "vic", in |-> uart_irqs[5]]}
               /\ realized' = realized \cup {"uart"}
               /\ calls' = Append(calls, Call("serial_mm_init", "uart",
                                              "iomem", 0, TRUE))
               /\ errp' = errp
               /\ pc' = "i2c_realize"
          ELSE /\ errp' = Error("uart", "activate", "serial_hds[0]")
               /\ pc' = "done"
               /\ UNCHANGED <<iosub, wires, realized, calls>>
    /\ UNCHANGED <<i, err, env, sram_mapped, sysmem, props, slaves, io>>

\* UART5: if (serial_hds[0]) serial_mm_init(&s->iomem, AST2400_UART_5_BASE, 2,
\*            qdev_get_gpio_in(vic, uart_irqs[4]), 38400, serial_hds[0], ...)
UartInit ==
    /\ pc = "uart"
    /\ IF serial_hd
          THEN /\ iosub' = iosub \cup {[name |-> "uart",
                                        offset |-> AST2400_UART_5_BASE,
                                        size |-> devsize]}
               /\ wires' = wires \cup {[src |-> "uart", out |-> 0,
                                        dst |-> "vic", in |-> uart_irqs[5]]}
               /\ realized' = realized \cup {"uart"}
               /\ calls' = Append(calls, Call("serial_mm_init", "uart",
                                              "iomem", 0, TRUE))
          ELSE UNCHANGED <<iosub, wires, realized, calls>>
    /\ pc' = "i2c_realize"
    /\ UNCHANGED <<i, err, errp, env, sram_mapped, sysmem, props, slaves, io>>

\* mutation: a failed I2C realize unwinds the regions and wires made so far
I2cRealizeRollback ==
    /\ pc = "i2c_realize"
    /\ \E fails \in BOOLEAN : object_property_set_bool("i2c", fails)
    /\ CheckErr("i2c_map")
    /\ IF err' # NoErr
          THEN sysmem' = {} /\ iosub' = {} /\ wires' = {}
          ELSE UNCHANGED <<sysmem, iosub, wires>>
    /\ UNCHANGED <<i, env, sram_mapped, props, slaves, io>>

\* mutation: the I2C controller's realize without the check that follows it
I2cRealizeUnchecked ==
    /\ pc = "i2c_realize"
    /\ \E fails \in BOOLEAN : object_property_set_bool("i2c", fails)
    /\ pc' = "i2c_map"
    /\ UNCHANGED <<i, errp, env, sram_mapped, sysmem, iosub, wires, props,
                   slaves, io>>

\* I2C: realize, check
I2cRealize ==
    /\ pc = "i2c_realize"
    /\ \E fails \in BOOLEAN : object_property_set_bool("i2c", fails)
    /\ CheckErr("i2c_map")
    /\ UNCHANGED <<i, env, sram_mapped, sysmem, iosub, wires, props, slaves,
                   io>>

\* I2C: map
I2cMap ==
    /\ pc = "i2c_map"
    /\ sysbus_mmio_map("i2c", AST2400_I2C_BASE)
    /\ pc' = "i2c_irq"
    /\ UNCHANGED <<i, err, errp, env, sram_mapped, iosub, wires, realized,
                   props, slaves, io>>

\* I2C: output 0 -> VIC input 12
I2cConnectIrq ==
    /\ pc = "i2c_irq"
    /\ sysbus_connect_irq("i2c", 0, "vic", I2C_IRQ)
    /\ pc' = "tmp423_create"
    /\ UNCHANGED <<i, err, errp, env, sram_mapped, sysmem, iosub, realized,
                   props, slaves, io>>

\* TMP423 on sub-bus 2 at 0x4c
Tmp423Create ==
    /\ pc = "tmp423_create"
    /\ i2c_create_slave(TMP423_BUS, "tmp423", TMP423_ADDR)
    /\ pc' = "tmp423_t0"
    /\ UNCHANGED <<i, err, errp, env, sram_mapped, sysmem, iosub, wires, props,
                   io>>

\* TMP423: "temperature0"
Tmp423SetT0 ==
    /\ pc = "tmp423_t0"
    /\ \E fails \in BOOLEAN :
          object_property_set_int("tmp423", "temperature0", fails)
    /\ pc' = "tmp423_t1"
    /\ UNCHANGED <<i, errp, env, sram_mapped, sysmem, iosub, wires, realized,
                   slaves, io>>

\* TMP423: "temperature1"
Tmp423SetT1 ==
    /\ pc = "tmp423_t1"
    /\ \E fails \in BOOLEAN :
          object_property_set_int("tmp423", "temperature1", fails)
    /\ pc' = "tmp423_t2"
    /\ UNCHANGED <<i, errp, env, sram_mapped, sysmem, iosub, wires, realized,
                   slaves, io>>

\* TMP423: "temperature2"
Tmp423SetT2 ==
    /\ pc = "tmp423_t2"
    /\ \E fails \in BOOLEAN :
          object_property_set_int("tmp423", "temperature2", fails)
    /\ pc' = "tmp423_t3"
    /\ UNCHANGED <<i, errp, env, sram_mapped, sysmem, iosub, wires, realized,
                   slaves, io>>

\* TMP423: "temperature3"; err is not looked at again
Tmp423SetT3 ==
    /\ pc = "tmp423_t3"
    /\ \E fails \in BOOLEAN :
          object_property_set_int("tmp423", "temperature3", fails)
    /\ pc' = "rtc_create"
    /\ UNCHANGED <<i, errp, env, sram_mapped, sysmem, iosub, wires, realized,
                   slaves, io>>

\* DS1338 on sub-bus 0 at 0x68; end of the function
RtcCreate ==
    /\ pc = "rtc_create"
    /\ i2c_create_slave(DS1338_BUS, "ds1338", DS1338_ADDR)
    /\ pc' = "done"
    /\ UNCHANGED <<i, err, errp, env, sram_mapped, sysmem, iosub, wires, props,
                   io>>

(* ---- guest accesses to the IO window ----------------------------------- *)
Contains(base, size, a) == base <= a /\ a < base + size

\* The handler an access at address a reaches: among the regions of system
\* memory that contain a the one of highest priority; inside the IO window
\* region a subregion of s->iomem comes before the window's own ops.
Resolve(a) ==
    LET cands == {r \in sysmem : Contains(r.base, r.size, a)}
    IN  IF cands = {} THEN "unassigned"
        ELSE LET top == CHOOSE r \in cands :
                            \A q \in cands : q.prio <= r.prio
                 subs == {u \in iosub :
                             Contains(top.base + u.offset, u.size, a)}
             IN  IF top.name = "iomem" /\ subs # {}
                    THEN (CHOOSE u \in subs : TRUE).name
                    ELSE top.name

\* addresses the guest touches
ProbeAddrs ==
    {AST2400_IOMEM_BASE, AST2400_IOMEM_BASE + AST2400_UART_5_BASE, CDNS_GEM_ADDR,
     AST2400_VIC_BASE, AST2400_SCU_BASE, AST2400_SCU_BASE + 4,
     AST2400_TIMER_BASE, AST2400_I2C_BASE}

\* qemu_log_mask(LOG_UNIMP, "%s: 0x%x [%u]", __func__, offset, size) and its
\* write form: the line handed to the log
LogLine(op, offset, value, size) ==
    [op |-> op, offset |-> offset, value |-> value, size |-> size]

\* mutation: the catch-all read echoing the offset
ast2400_io_read_offset(offset, size) == offset

\* return value of ast2400_io_read(p, offset, size)
ast2400_io_read(offset, size) == 0

\* the machine runs only after a composition that reported no error
Running == pc = "done" /\ errp = NoErr

\* a read that reaches ast2400_io_ops.read
IoRead ==
    /\ Running
    /\ naccess < MaxAccess
    /\ \E a \in ProbeAddrs, size \in AccessSizes :
          /\ Resolve(a) = "iomem"
          /\ rdata' = ast2400_io_read(a - AST2400_IOMEM_BASE, size)
          /\ iolog' = LogLine("read", a - AST2400_IOMEM_BASE, 0, size)
    /\ lastop' = "io_read"
    /\ naccess' = naccess + 1
    /\ UNCHANGED <<pc, i, err, errp, env, soc, calls>>

\* a write that reaches ast2400_io_ops.write (ast2400_io_write)
IoWrite ==
    /\ Running
    /\ naccess < MaxAccess
    /\ \E a \in ProbeAddrs, size \in AccessSizes, value \in WriteValues :
          /\ Resolve(a) = "iomem"
          /\ iolog' = LogLine("write", a - AST2400_IOMEM_BASE, value, size)
    /\ lastop' = "io_write"
    /\ naccess' = naccess + 1
    /\ UNCHANGED <<pc, i, err, errp, env, soc, calls, rdata>>

\* a read that reaches a device's own handler: the value is the device's
DevRead ==
    /\ Running
    /\ naccess < MaxAccess
    /\ \E a \in ProbeAddrs :
          /\ Resolve(a) \notin {"iomem", "unassigned"}
          /\ rdata' \in {0, 1}
    /\ lastop' = "dev_read"
    /\ naccess' = naccess + 1
    /\ UNCHANGED <<pc, i, err, errp, env, soc, calls, iolog>>

Next ==
    \/ MapSram
    \/ MapIomem
    \/ VicSetSense
    \/ VicSetDualEdge
    \/ VicSetEvent
    \/ VicRealize
    \/ VicMap
    \/ VicConnectIrq
    \/ VicConnectFiq
    \/ TimerRealize
    \/ TimerMap
    \/ TimerConnectIrq
    \/ GemSetNic
    \/ GemRealize
    \/ GemMap
    \/ GemConnectIrq
    \/ ScuSet0c
    \/ ScuSet88
    \/ ScuSet8c
    \/ ScuSet9c
    \/ ScuRealize
    \/ ScuMap
    \/ UartInit
    \/ I2cRealize
    \/ I2cMap
    \/ I2cConnectIrq
    \/ Tmp423Create
    \/ Tmp423SetT0
    \/ Tmp423SetT1
    \/ Tmp423SetT2
    \/ Tmp423SetT3
    \/ RtcCreate
    \/ IoRead
    \/ IoWrite
    \/ DevRead

Spec == Init /\ [][Next]_vars

\* the steps of ast2400_realize: it is a synchronous function, so a step that
\* can be taken is taken
Compose == pc # "done" /\ Next
FairSpec == Spec /\ WF_vars(Compose)

(* ======================================================================= *)
(* Properties                                                              *)
(* ======================================================================= *)
Calls == 1..Len(calls)
Returned == pc = "done"
\* a call that brings a device up: a realize, or a helper that creates and
\* starts one (serial_mm_init, i2c_create_slave)
IsActivation(c) == c.op \in {"realize", "serial_mm_init", "slave"}
ActivatedOk(c, d) == IsActivation(c) /\ c.dev = d /\ c.ok
SomeCallFailed == \E k \in Calls : ~calls[k].ok
\* the five sysbus devices in the order ast2400_realize realizes them
RealizeOrder == <<"vic", "timerctrl", "gem", "scu", "i2c">>
Pos(d) == CHOOSE n \in 1..Len(RealizeOrder) : RealizeOrder[n] = d
LaterThan(d) ==
    {RealizeOrder[n] : n \in (Pos(d) + 1)..Len(RealizeOrder)}
        \cup (IF d = "i2c" THEN {} ELSE {"uart"}) \cup {"tmp423", "ds1338"}

C2_NoCallAfterFailure ==
    \A k \in Calls : ~calls[k].ok => k = Len(calls)

\* C3: when ast2400_realize has returned and some parameter application or
\* activation failed during the run, the caller's errp is non-empty.
C3_FailureReachesCaller ==
    (Returned /\ SomeCallFailed) => errp # NoErr

C5_DependencyOrder ==
    /\ \A k \in Calls :
          ((calls[k].op = "irq" /\ calls[k].name = "vic")
              \/ calls[k].op = "serial_mm_init")
              => \E j \in 1..(k - 1) : calls[j] = Call("realize", "vic", "realized", 0, TRUE)
    /\ \A k \in Calls :
          calls[k].op = "slave"
              => \E j \in 1..(k - 1) : calls[j] = Call("realize", "i2c", "realized", 0, TRUE)
    /\ (\E w \in wires : w.dst = "vic") => "vic" \in realized
    /\ slaves # {} => "i2c" \in realized

\* C5 witness: both slaves are attached and the UART is wired
C5_Witness ==
    /\ Cardinality(slaves) = 2
    /\ \E w \in wires : w.src = "uart" /\ w.dst = "vic"

Wire(src, out, dst, in) == [src |-> src, out |-> out, dst |-> dst, in |-> in]

\* C6: after a composition that reported no error, timer output n (0..7) is
\* wired to VIC input 16, 17, 18, 35, 36, 37, 38, 39 respectively and to
\* nothing else, and the timer has no other wired output.
C6_TimerTable ==
    Running =>
        LET T == <<16, 17, 18, 35, 36, 37, 38, 39>>
        IN  /\ \A n \in 0..7 :
                  {w \in wires : w.src = "timerctrl" /\ w.out = n}
                      = {Wire("timerctrl", n, "vic", T[n + 1])}
            /\ \A w \in wires : w.src = "timerctrl" => w.out \in 0..7

\* C6 witness: a composition that reported no error, with eight timer wires
C6_Witness ==
    Running /\ Cardinality({w \in wires : w.src = "timerctrl"}) = 8

\* C7: every VIC input and each of the CPU's two inputs has at most one
\* source at any point of any run, and a wire once made is never removed or
\* redirected.
C7_OneSourcePerInput ==
    /\ [](\A w1 \in wires : \A w2 \in wires :
             (w1.dst = w2.dst /\ w1.in = w2.in) => w1 = w2)
    /\ [][wires \subseteq wires']_vars

\* C7 witness: all thirteen wires of a run with a serial backend are in place
C7_Witness == serial_hd /\ Cardinality(wires) = 13 /\ Returned

\* C8: after a composition that reported no error, an access at the base of
\* the GEM, the VIC, the SCU, the timer and the I2C controller reaches that
\* device and not the catch-all handler, and the IO window's priority is
\* strictly below that of every device region inside it.
C8_BasesReachDevices ==
    Running =>
        /\ Resolve(510132224) = "gem"
        /\ Resolve(510394368) = "vic"
        /\ Resolve(510533632) = "scu"
        /\ Resolve(511188992) = "timerctrl"
        /\ Resolve(511221760) = "i2c"
        /\ \A r \in sysmem : \A q \in sysmem :
              (r.name = "iomem" /\ q.name # "iomem"
                  /\ Contains(r.base, r.size, q.base))
                  => r.prio < q.prio /\ r.prio = -1

\* C8 witness: the five devices are mapped under the IO window and the
\* machine runs
C8_Witness ==
    /\ Running
    /\ Cardinality({r \in sysmem : Contains(AST2400_IOMEM_BASE,
                                            AST2400_IOMEM_SIZE, r.base)}) = 6

\* the state a catch-all access must leave alone
Machine == <<pc, i, err, errp, env, soc, calls>>

\* C9: a read served by the catch-all handler yields 0 whatever the offset,
\* the size and the accesses before it; a catch-all read or write changes
\* nothing of the SoC, the address space, the wiring or the error channel.
C9_CatchAllInert ==
    /\ [](lastop = "io_read" => rdata = 0)
    /\ [][(naccess' # naccess /\ lastop' \in {"io_read", "io_write"})
             => (UNCHANGED Machine /\ errp' = NoErr)]_vars

\* C9 witness: a 4-byte catch-all read at a non-zero offset as the second
\* access
C9_Witness ==
    /\ lastop = "io_read" /\ naccess >= 2
    /\ iolog.op = "read" /\ iolog.offset # 0 /\ iolog.size = 4

\* the I2C controller and its two slaves, complete
I2cComplete ==
    /\ {"i2c", "tmp423", "ds1338"} \subseteq realized
    /\ \E r \in sysmem : r.name = "i2c" /\ r.base = 511221760
    /\ {w \in wires : w.src = "i2c"} = {Wire("i2c", 0, "vic", 12)}
    /\ slaves = {[type |-> "tmp423", bus |-> 2, addr |-> 76],
                 [type |-> "ds1338", bus |-> 0, addr |-> 104]}

\* C10: a run in which no call fails ends without error with or without a
\* serial backend, and in both cases the I2C controller and its two slaves
\* are realized, mapped and wired alike; without a backend there is no UART
\* region and VIC input 10 has no source.
C10_NoSerialBackend ==
    (Returned /\ ~SomeCallFailed) =>
        /\ errp = NoErr
        /\ I2cComplete
        /\ ~serial_hd =>
              /\ iosub = {}
              /\ "uart" \notin realized
              /\ Resolve(AST2400_IOMEM_BASE + AST2400_UART_5_BASE) = "iomem"
              /\ ~\E w \in wires : w.dst = "vic" /\ w.in = 10

\* C10 witness: a finished run without a serial backend in which no call
\* failed
C10_Witness == Returned /\ ~serial_hd /\ ~SomeCallFailed /\ errp = NoErr

Present(c) ==
    /\ (c.op = "insert" /\ c.dev = "sram") => sram_mapped
    /\ (c.op = "insert" /\ c.dev = "iomem") =>
          \E r \in sysmem : r.name = "iomem" /\ r.base = AST2400_IOMEM_BASE
    /\ c.op = "map" => \E r \in sysmem : r.name = c.dev
    /\ c.op = "irq" =>
          \E w \in wires : w.src = c.dev /\ w.out = c.n /\ w.dst = c.name
    /\ c.op = "serial_mm_init" =>
          /\ \E u \in iosub : u.name = "uart"
          /\ \E w \in wires : w.src = "uart"

\* C12: nothing is rolled back: the regions in system memory, the subregions
\* of the IO window and the wires only grow from step to step, and when a run
\* has aborted every region inserted and every wire made by an earlier step
\* is still there.
C12_NoRollback ==
    /\ [][/\ (sram_mapped => sram_mapped')
          /\ sysmem \subseteq sysmem'
          /\ iosub \subseteq iosub'
          /\ wires \subseteq wires']_vars
    /\ []((Returned /\ errp # NoErr) => \A k \in Calls : Present(calls[k]))

\* C12 witness: the run aborted at the I2C controller's realize with the
\* earlier regions and wires in place
C12_Witness ==
    /\ Returned /\ errp = Error("i2c", "activate", "realized")
    /\ serial_hd
    /\ Cardinality(sysmem) = 5 /\ Cardinality(iosub) = 1
    /\ Cardinality(wires) = 12

\* the order of the blocks of ast2400_realize
BlockOrder == <<"sram", "iomem", "vic", "timerctrl", "gem", "scu", "uart",
                "i2c", "tmp423", "ds1338">>
Rank(d) == CHOOSE n \in 1..Len(BlockOrder) : BlockOrder[n] = d
\* inside a block: parameters, activation, mapping, wiring
Phase(c) ==
    IF c.op = "set" /\ c.dev # "tmp423" THEN 1
    ELSE IF IsActivation(c) \/ c.op = "insert" THEN 2
    ELSE IF c.op = "map" THEN 3
    ELSE 4
\* the wires each sysbus device drives when its block is complete
ExpectedWires(d) ==
    IF d = "vic" THEN {Wire("vic", 0, "cpu", 0), Wire("vic", 1, "cpu", 1)}
    ELSE IF d = "timerctrl"
        THEN {Wire("timerctrl", 0, "vic", 16), Wire("timerctrl", 1, "vic", 17),
              Wire("timerctrl", 2, "vic", 18), Wire("timerctrl", 3, "vic", 35),
              Wire("timerctrl", 4, "vic", 36), Wire("timerctrl", 5, "vic", 37),
              Wire("timerctrl", 6, "vic", 38), Wire("timerctrl", 7, "vic", 39)}
    ELSE IF d = "gem" THEN {Wire("gem", 0, "vic", 3)}
    ELSE IF d = "uart" THEN {Wire("uart", 0, "vic", 10)}
    ELSE IF d = "i2c" THEN {Wire("i2c", 0, "vic", 12)}
    ELSE {}
BlockComplete(d) ==
    /\ {w \in wires : w.src = d} = ExpectedWires(d)
    /\ IF d = "uart" THEN \E u \in iosub : u.name = "uart"
                     ELSE \E r \in sysmem : r.name = d

\* C13: the calls of every run, aborted or not, follow the block order SRAM,
\* IO window, VIC, timer, GEM, SCU, UART (only with a serial backend), I2C,
\* TMP423, DS1338 without leaving a block out; inside a block parameters come
\* before the activation, the activation before the mapping, the mapping
\* before the wiring; and when a device's activation is called every earlier
\* device is mapped and fully wired.
C13_FixedOrder ==
    /\ \A j \in Calls : \A k \in Calls :
          j < k => /\ Rank(calls[j].dev) <= Rank(calls[k].dev)
                   /\ calls[j].dev = calls[k].dev
                         => Phase(calls[j]) <= Phase(calls[k])
    /\ \A k \in Calls : \A n \in 1..(Rank(calls[k].dev) - 1) :
          \/ BlockOrder[n] = "uart" /\ ~serial_hd
          \/ \E j \in 1..(k - 1) : calls[j].dev = BlockOrder[n]
    /\ \A k \in Calls : calls[k].dev = "uart" => serial_hd
    /\ \A k \in Calls :
          IsActivation(calls[k]) =>
              \A d \in {"vic", "timerctrl", "gem", "scu", "uart", "i2c"} :
                  (Rank(d) < Rank(calls[k].dev) /\ (d = "uart" => serial_hd))
                      => BlockComplete(d)

\* C13 witness: a complete run with a serial backend, the DS1338 created last
C13_Witness ==
    /\ Returned /\ serial_hd /\ errp = NoErr
    /\ calls[Len(calls)] = Call("slave", "ds1338", "i2c", 0, TRUE)
    /\ Len(calls) = 39

\* C14: a device is not activated after one of its own parameter
\* applications failed: after a failed VIC mask no realize of the VIC is
\* called, and after a failed SCU preset no realize of the SCU is called.
C14_NoActivationAfterFailedConfig ==
    \A d \in {"vic", "scu"} :
        (\E k \in Calls : calls[k].op = "set" /\ calls[k].dev = d /\ ~calls[k].ok)
            => /\ ~\E k \in Calls : calls[k].op = "realize" /\ calls[k].dev = d
               /\ d \notin realized

SysbusDevices == {"vic", "timerctrl", "gem", "scu", "i2c"}

\* C15: a sysbus device (VIC, timer, GEM, SCU, I2C) that is mapped or drives
\* a wire has been realized successfully by an earlier call of the same run.
C15_MappedImpliesRealized ==
    /\ \A k \in Calls :
          (calls[k].op \in {"map", "irq"} /\ calls[k].dev \in SysbusDevices)
              => \E j \in 1..(k - 1) :
                    calls[j] = Call("realize", calls[k].dev, "realized", 0, TRUE)
    /\ \A d \in SysbusDevices :
          ((\E r \in sysmem : r.name = d) \/ (\E w \in wires : w.src = d))
              => d \in realized

\* C15 witness: the SCU was realized but not mapped, because one of its
\* presets had failed; the devices before it are mapped and wired
C15_Witness ==
    /\ Returned /\ "scu" \in realized
    /\ ~\E r \in sysmem : r.name = "scu"
    /\ \E r \in sysmem : r.name = "gem"
    /\ \E w \in wires : w.src = "timerctrl"

\* C16: after a composition with a serial backend that reported no error the
\* wires are exactly: VIC output 0 -> CPU IRQ, VIC output 1 -> CPU FIQ, GEM
\* output 0 -> VIC input 3, UART5 -> VIC input 10, I2C output 0 -> VIC input
\* 12 and the eight timer wires; the SCU, the TMP423 and the DS1338 drive
\* none.
C16_ExactWiring ==
    (Running /\ serial_hd) =>
        /\ wires = {Wire("vic", 0, "cpu", 0), Wire("vic", 1, "cpu", 1),
                    Wire("gem", 0, "vic", 3), Wire("uart", 0, "vic", 10),
                    Wire("i2c", 0, "vic", 12)}
                   \cup {Wire("timerctrl", n, "vic",
                              <<16, 17, 18, 35, 36, 37, 38, 39>>[n + 1]) :
                            n \in 0..7}
        /\ Cardinality(wires) = 13
        /\ ~\E w \in wires : w.src \in {"scu", "tmp423", "ds1338"}

\* C16 witness: a composition with a serial backend that reported no error,
\* both slaves attached
C16_Witness == Running /\ serial_hd /\ Cardinality(slaves) = 2 /\ naccess = 0

\* C17: every run of ast2400_realize reaches its return, with or without an
\* error; from then on it stays returned, the outcome in errp does not
\* change, and nothing is written to the address space or the wiring.
C17_Terminates ==
    /\ <>Returned
    /\ [][Returned => /\ Returned'
                      /\ errp' = errp
                      /\ UNCHANGED <<sram_mapped, sysmem, iosub, wires>>]_vars

\* C17 witness: the function has returned and the guest has since made an
\* access
C17_Witness == Returned /\ naccess >= 1 /\ ~serial_hd

\* where each concrete region sits in the guest's address space
Placements ==
    {[name |-> r.name, addr |-> r.base] : r \in {q \in sysmem : q.name # "iomem"}}
        \cup {[name |-> u.name, addr |-> AST2400_IOMEM_BASE + u.offset] : u \in iosub}
InWindow(a) == a >= 509607936 /\ a < 509607936 + 2097152

\* C18: every device region and the UART lie inside the IO window
\* [0x1E600000, 0x1E800000) at pairwise distinct addresses; the UART's
\* absolute address is 0x1E600000 + 0x00184000 = 0x1E784000; after a complete
\* run with a serial backend the six placements are the five fixed bases and
\* that address.
C18_PlacementsInWindow ==
    /\ \A p \in Placements : InWindow(p.addr)
    /\ \A p \in Placements : \A q \in Placements : p.addr = q.addr => p = q
    /\ \A p \in Placements : p.name = "uart" => p.addr = 511197184
    /\ (Running /\ serial_hd) =>
          {p.addr : p \in Placements}
              = {510132224, 510394368, 510533632, 511188992, 511221760,
                 511197184}
    /\ (Running /\ serial_hd) => Cardinality(Placements) = 6

\* C18 witness: all six regions are placed
C18_Witness == Cardinality(Placements) = 6 /\ Returned /\ serial_hd
====
